---- MODULE Spec2Model ----
(***************************************************************************)
(* Model of pkg/handler/handler.go: the event translator (HandleEvent),    *)
(* the partitioned dispatcher (insert2Queue) and the lane workers          *)
(* (process) of the pod EIP controller.                                    *)
(*                                                                         *)
(* Real state: ChannelSize, ProcessChannel, EipStatusMap, the position of  *)
(* every goroutine (worker, sender) and whether the process has died of a  *)
(* runtime panic.  History state (written by the actions, read by none of  *)
(* their guards except the bound on handled): chanMeta, handled, nEnq,     *)
(* nDeq, history, lastCall.                                                *)
(***************************************************************************)
EXTENDS Integers, Sequences, FiniteSets

\* ---------------------------------------------------------------- bounds

\* Largest lane count h.ChannelSize the constructor is given.
MaxLanes == 2

\* Capacity of each lane channel.  handler.go:29 makes it 100; the model
\* scales it down so that a full channel is reached.
QueueCap == 2

\* Number of HandleEvent invocations in one behaviour.
MaxEvents == 3

\* Number of goroutines calling HandleEvent.
NumSubmitters == 1

\* ------------------------------------------------------------ input space

\* A field the snapshot does not have, and a field that is not a string.
Absent == "<absent>"
NotString == "<notstring>"

IPs == {"10.0.0.4", "10.0.0.5", "192.168.0.1"}
Phases == {Absent, NotString, "Running", "Pending"}
PodIPFields == {Absent, NotString, ""} \cup IPs
Versions == {"100", "101"}
TypeValues == {Absent, "auto", "manual"}
ShieldValues == {Absent, "advanced"}
Actions == {"create", "update", "delete"}

\* A notification is obj (phase, podIP, resourceVersion, annotations),
\* oldObj (annotations) and action, as HandleEvent reads them.  annType and
\* oldAnnType are the value of annotation
\* service.beta.kubernetes.io/aws-eip-pod-controller-type in obj and in
\* oldObj, annShield that of
\* service.beta.kubernetes.io/aws-eip-pod-controller-shield in obj.

\* Every annotation combination under every action, for a running pod.
AnnotationNotes ==
    [phase : {"Running"}, podIP : {"10.0.0.4"}, resourceVersion : {"100"},
     annType : TypeValues, annShield : ShieldValues,
     oldAnnType : {Absent, "auto"}, action : Actions]

\* Every combination of the phase field and the podIP field: under every
\* action for a pod that asks for an address, and under update for a pod
\* that asked for one before.
FieldNotes ==
    [phase : Phases, podIP : {Absent, NotString, "", "10.0.0.4"},
     resourceVersion : {"100"}, annType : {"auto"}, annShield : {Absent},
     oldAnnType : {Absent}, action : Actions]
    \cup
    [phase : Phases, podIP : {Absent, NotString, "", "10.0.0.4"},
     resourceVersion : {"100"}, annType : {Absent}, annShield : {Absent},
     oldAnnType : {"auto"}, action : {"update"}]

\* Later snapshots of the same pods: enabled, enabled with the shield,
\* opted out, deleted, and created without the podIP field.
LaterNotes ==
    [phase : {"Running"}, podIP : {"10.0.0.4"}, resourceVersion : {"101"},
     annType : {"auto"}, annShield : ShieldValues, oldAnnType : {Absent},
     action : {"update", "delete"}]
    \cup
    [phase : {"Running"}, podIP : {"10.0.0.4"}, resourceVersion : {"101"},
     annType : {"manual"}, annShield : {Absent}, oldAnnType : {"auto"},
     action : {"update"}]
    \cup
    [phase : {Absent}, podIP : {Absent}, resourceVersion : {"101"},
     annType : {"auto"}, annShield : {Absent}, oldAnnType : {Absent},
     action : {"create"}]

\* Further pods: one on the other lane, and one whose address is above
\* 127.255.255.255.
OtherPodNotes ==
    [phase : {"Running"}, podIP : {"10.0.0.5"}, resourceVersion : {"100"},
     annType : {"auto"}, annShield : {Absent}, oldAnnType : {Absent},
     action : {"update", "delete"}]
    \cup
    [phase : {"Running"}, podIP : {"192.168.0.1"}, resourceVersion : {"100"},
     annType : {"auto"}, annShield : {Absent}, oldAnnType : {Absent},
     action : {"update"}]
    \cup
    [phase : {"Running"}, podIP : {"192.168.0.1"}, resourceVersion : {"101"},
     annType : {"auto"}, annShield : {Absent}, oldAnnType : {Absent},
     action : {"delete"}]

\* The notifications a HandleEvent call may be given, the same for every
\* call.
Notifications ==
    AnnotationNotes \cup FieldNotes \cup LaterNotes \cup OtherPodNotes

Identities == IPs \cup {""}

Events ==
    [PodIP : Identities, ResourceVersion : Versions,
     AttachIP : BOOLEAN, ShiedAdv : BOOLEAN]

Submitters == 1 .. NumSubmitters

\* ------------------------------------------------------------------ state

VARIABLES
    ChannelSize,    \* h.ChannelSize
    ProcessChannel, \* h.ProcessChannel: lane -> sequence of buffered events
    EipStatusMap,   \* h.EipStatusMap: lane -> (identity -> event)
    worker,         \* goroutine process(i): where it is and what it holds
    sender,         \* goroutine in HandleEvent/insert2Queue: idle or blocked
    panicked,       \* the process died of a runtime panic
    chanMeta,       \* history: per buffered event, its ticket and action
    handled,        \* history: number of HandleEvent invocations
    nEnq,           \* history: number of completed channel sends
    nDeq,           \* history: number of channel receives
    history,        \* history: identity -> its finished events, in order
    lastCall        \* history: the HandleEvent call that was the last step

vars ==
    <<ChannelSize, ProcessChannel, EipStatusMap, worker, sender, panicked,
      chanMeta, handled, nEnq, nDeq, history, lastCall>>

Lanes == 0 .. (ChannelSize - 1)

NoEvent == [PodIP |-> "", ResourceVersion |-> "", AttachIP |-> FALSE, ShiedAdv |-> FALSE]
NoMeta == [seq |-> 0, action |-> ""]
EmptyMap == [x \in {} |-> NoEvent]

\* --------------------------------------------------------------- event.go

\* The four octets of a dotted-quad address; none for the empty string.
ParseIP(ip) ==
    CASE ip = "10.0.0.4" -> <<10, 0, 0, 4>>
      [] ip = "10.0.0.5" -> <<10, 0, 0, 5>>
      [] ip = "192.168.0.1" -> <<192, 168, 0, 1>>
      [] OTHER -> <<0, 0, 0, 0>>

\* The identity as an unsigned 32-bit number (big endian), kept as two
\* 16-bit halves: values at or above 2^31 do not fit the checker's integers.
PodIP2Int(e) ==
    LET o == ParseIP(e.PodIP)
    IN  [hi |-> o[1] * 256 + o[2], lo |-> o[3] * 256 + o[4]]

\* ------------------------------------------------------------ insert2Queue

\* Go's int32(u) of an unsigned 32-bit value: two's complement wrap.
Int32(u) ==
    IF u.hi >= 32768 THEN (u.hi - 65536) * 65536 + u.lo
    ELSE u.hi * 65536 + u.lo

\* Go's a % n for n > 0: the remainder has the sign of the dividend.
GoRem(a, n) ==
    LET r == a % n
    IN  IF a < 0 /\ r # 0 THEN r - n ELSE r

\* Mutant: the lane is computed from the version token, not the identity.
LaneHashOfVersion(e, n) == IF e.ResourceVersion = "101" THEN 1 % n ELSE 0

\* hash := int32(event.PodIP2Int()) % h.ChannelSize
LaneHash(e, n) == GoRem(Int32(PodIP2Int(e)), n)

\* ------------------------------------------------------------- HandleEvent

\* unstructured.NestedString: value, exist, err.
NestedString(f) ==
    [val |-> IF f \in {Absent, NotString} THEN "" ELSE f,
     exist |-> f \notin {Absent, NotString},
     err |-> f = NotString]

\* The event literal built before the switch.
NewEvent(n) ==
    [PodIP |-> NestedString(n.podIP).val,
     ResourceVersion |-> n.resourceVersion,
     AttachIP |-> FALSE,
     ShiedAdv |-> FALSE]

\* Mutant: the delete case is missing and delete is handled as update is.
SwitchActionNoDelete(n, ev) ==
    CASE n.action \in {"update", "delete"} ->
            IF n.annType = "auto"
            THEN [emit |-> TRUE,
                  e |-> [ev EXCEPT !.AttachIP = TRUE,
                                   !.ShiedAdv = (n.annShield = "advanced")]]
            ELSE IF n.oldAnnType = "auto"
                 THEN [emit |-> TRUE, e |-> [ev EXCEPT !.AttachIP = FALSE]]
                 ELSE [emit |-> FALSE, e |-> ev]
      [] OTHER -> [emit |-> TRUE, e |-> ev]

\* Mutant: an update that enables nothing is always ignored, whatever the
\* previous annotations were.
SwitchActionNoOptOut(n, ev) ==
    CASE n.action = "update" ->
            IF n.annType = "auto"
            THEN [emit |-> TRUE,
                  e |-> [ev EXCEPT !.AttachIP = TRUE,
                                   !.ShiedAdv = (n.annShield = "advanced")]]
            ELSE [emit |-> FALSE, e |-> ev]
      [] n.action = "delete" ->
            [emit |-> TRUE, e |-> [ev EXCEPT !.ShiedAdv = FALSE, !.AttachIP = FALSE]]
      [] OTHER -> [emit |-> TRUE, e |-> ev]

\* Mutant: the shield annotation is read outside the auto-attach test.
SwitchActionShieldAlone(n, ev) ==
    CASE n.action = "update" ->
            IF n.annType = "auto"
            THEN [emit |-> TRUE,
                  e |-> [ev EXCEPT !.AttachIP = TRUE,
                                   !.ShiedAdv = (n.annShield = "advanced")]]
            ELSE IF n.oldAnnType = "auto"
                 THEN [emit |-> TRUE,
                       e |-> [ev EXCEPT !.AttachIP = FALSE,
                                        !.ShiedAdv = (n.annShield = "advanced")]]
                 ELSE [emit |-> FALSE, e |-> ev]
      [] n.action = "delete" ->
            [emit |-> TRUE, e |-> [ev EXCEPT !.ShiedAdv = FALSE, !.AttachIP = FALSE]]
      [] OTHER -> [emit |-> TRUE, e |-> ev]

\* The switch on action: whether HandleEvent goes on to insert2Queue, and
\* with which event.
SwitchAction(n, ev) ==
    CASE n.action = "update" ->
            IF n.annType = "auto"
            THEN [emit |-> TRUE,
                  e |-> [ev EXCEPT !.AttachIP = TRUE,
                                   !.ShiedAdv = (n.annShield = "advanced")]]
            ELSE IF n.oldAnnType = "auto"
                 THEN [emit |-> TRUE, e |-> [ev EXCEPT !.AttachIP = FALSE]]
                 ELSE [emit |-> FALSE, e |-> ev]
      [] n.action = "delete" ->
            [emit |-> TRUE, e |-> [ev EXCEPT !.ShiedAdv = FALSE, !.AttachIP = FALSE]]
      [] OTHER -> [emit |-> TRUE, e |-> ev]

\* Mutant: the phase filter is skipped for delete notifications.
PhaseRejectsExceptDelete(n) ==
    LET p == NestedString(n.phase)
    IN  p.err \/ (n.action # "delete" /\ p.exist /\ p.val # "Running")

\* The phase filter and the podIP filter (the two early returns), and the
\* error returns of NestedString.
PhaseRejects(n) ==
    LET p == NestedString(n.phase)
    IN  p.err \/ (p.exist /\ p.val # "Running")

PodIPRejects(n) ==
    LET p == NestedString(n.podIP)
    IN  p.err \/ (p.exist /\ p.val = "")

\* What HandleEvent does with a notification up to the call of
\* insert2Queue: no event, or the event it submits.
Translate(n) ==
    IF PhaseRejects(n) \/ PodIPRejects(n)
    THEN [emit |-> FALSE, e |-> NoEvent]
    ELSE SwitchAction(n, NewEvent(n))

\* ------------------------------------------------------------------ init

IdleWorker ==
    [pc |-> "recv", e |-> NoEvent, val |-> NoEvent, ok |-> FALSE, meta |-> NoMeta]
IdleSender == [pc |-> "idle", e |-> NoEvent, hash |-> 0, action |-> ""]

\* The handler after NewHandler: ChannelSize empty channels and empty maps,
\* one worker per lane waiting on its channel.
Init ==
    /\ ChannelSize \in 1 .. MaxLanes
    /\ ProcessChannel = [i \in 0 .. (ChannelSize - 1) |-> <<>>]
    /\ EipStatusMap = [i \in 0 .. (ChannelSize - 1) |-> EmptyMap]
    /\ worker = [i \in 0 .. (ChannelSize - 1) |-> IdleWorker]
    /\ sender = [s \in Submitters |-> IdleSender]
    /\ panicked = FALSE
    /\ chanMeta = [i \in 0 .. (ChannelSize - 1) |-> <<>>]
    /\ handled = 0
    /\ nEnq = 0
    /\ nDeq = 0
    /\ history = [x \in Identities |-> <<>>]
    /\ lastCall = {}

\* ------------------------------------------------- insert2Queue, the send

\* h.ProcessChannel[hash] <- event, once the channel has room.
ChannelSend(hash, e, action) ==
    /\ ProcessChannel' = [ProcessChannel EXCEPT ![hash] = Append(@, e)]
    /\ chanMeta' = [chanMeta EXCEPT
                       ![hash] = Append(@, [seq |-> nEnq + 1, action |-> action])]
    /\ nEnq' = nEnq + 1

\* Mutant: the send never waits for room.
HasRoomAlways(hash) == TRUE

\* Whether the send can complete now: the buffered channel has room.
HasRoom(hash) == Len(ProcessChannel[hash]) < QueueCap

\* HandleEvent(obj, oldObj, action) called by goroutine s with notification
\* n, up to where it returns, blocks in the channel send or panics.
HandleEvent(s, n) ==
    /\ ~panicked
    /\ sender[s].pc = "idle"
    /\ handled' = handled + 1
    /\ lastCall' = {[s |-> s, n |-> n, chan |-> ProcessChannel, enq |-> nEnq]}
    /\ LET t == Translate(n)
           hash == LaneHash(t.e, ChannelSize)
       IN  \/ /\ ~t.emit
              /\ UNCHANGED <<ProcessChannel, chanMeta, nEnq, sender, panicked>>
           \/ /\ t.emit
              /\ hash \notin Lanes
              /\ panicked' = TRUE
              /\ UNCHANGED <<ProcessChannel, chanMeta, nEnq, sender>>
           \/ /\ t.emit
              /\ hash \in Lanes
              /\ HasRoom(hash)
              /\ ChannelSend(hash, t.e, n.action)
              /\ UNCHANGED <<sender, panicked>>
           \/ /\ t.emit
              /\ hash \in Lanes
              /\ ~HasRoom(hash)
              /\ sender' = [sender EXCEPT ![s] =
                               [pc |-> "send", e |-> t.e, hash |-> hash,
                                action |-> n.action]]
              /\ UNCHANGED <<ProcessChannel, chanMeta, nEnq, panicked>>
    /\ UNCHANGED <<ChannelSize, EipStatusMap, worker, nDeq, history>>

\* The blocked send of goroutine s completes and insert2Queue returns.
SendUnblocked(s) ==
    /\ ~panicked
    /\ sender[s].pc = "send"
    /\ HasRoom(sender[s].hash)
    /\ ChannelSend(sender[s].hash, sender[s].e, sender[s].action)
    /\ sender' = [sender EXCEPT ![s] = IdleSender]
    /\ lastCall' = {}
    /\ UNCHANGED <<ChannelSize, EipStatusMap, worker, panicked, handled, nDeq,
                   history>>

\* ---------------------------------------------------------------- process

\* for e = range h.ProcessChannel[i]: the event the receive yields.
Receive(q) == Head(q)

\* Mutant: the map is read with the version token as the key.
LookupByVersion(m, e) ==
    IF e.ResourceVersion \in DOMAIN m
    THEN [val |-> m[e.ResourceVersion], ok |-> TRUE]
    ELSE [val |-> NoEvent, ok |-> FALSE]

\* val, ok := h.EipStatusMap[i][e.PodIP]
Lookup(m, e) ==
    IF e.PodIP \in DOMAIN m
    THEN [val |-> m[e.PodIP], ok |-> TRUE]
    ELSE [val |-> NoEvent, ok |-> FALSE]

\* Mutant: the duplicate test compares the whole event, flags included.
SameWholeEvent(l, e) == l.ok /\ l.val = e

\* ok && val.ResourceVersion == e.ResourceVersion
SameResourceVersion(l, e) == l.ok /\ l.val.ResourceVersion = e.ResourceVersion

\* Mutant: the event is stored under its version token.
MapStoreByVersion(m, e) ==
    [x \in DOMAIN m \cup {e.ResourceVersion} |->
        IF x = e.ResourceVersion THEN e ELSE m[x]]

\* Mutant: an event that asks for no address removes the entry.
MapStoreDropsDetached(m, e) ==
    IF e.AttachIP
    THEN [x \in DOMAIN m \cup {e.PodIP} |-> IF x = e.PodIP THEN e ELSE m[x]]
    ELSE [x \in DOMAIN m \ {e.PodIP} |-> m[x]]

\* h.EipStatusMap[i][e.PodIP] = e
MapStore(m, e) ==
    [x \in DOMAIN m \cup {e.PodIP} |-> IF x = e.PodIP THEN e ELSE m[x]]

\* Mutant: a failed create path falls through to the store as well.
ReachesStoreAlways(pc, err) == TRUE

\* Mutant: a failed transition path leaves by continue too.
ReachesStoreOnSuccess(pc, err) == ~err

\* Whether the iteration reaches the store at the end of the loop body:
\* only a failed create path leaves by continue.
ReachesStore(pc, err) == ~(pc = "create" /\ err)

\* The record of a finished iteration: the event, its ticket and action,
\* what the lookup gave (val, ok) and how the iteration ended.
Finished(e, m, l, outcome) ==
    [e |-> e, seq |-> m.seq, action |-> m.action, val |-> l.val, ok |-> l.ok,
     outcome |-> outcome]

\* Worker i receives the next event and either skips it as a duplicate or
\* enters e.Process (create path with nil, transition path with &val).
Dequeue(i) ==
    /\ ~panicked
    /\ worker[i].pc = "recv"
    /\ ProcessChannel[i] # <<>>
    /\ LET e == Receive(ProcessChannel[i])
           m == Head(chanMeta[i])
           l == Lookup(EipStatusMap[i], e)
       IN  /\ ProcessChannel' = [ProcessChannel EXCEPT ![i] = Tail(@)]
           /\ chanMeta' = [chanMeta EXCEPT ![i] = Tail(@)]
           /\ nDeq' = nDeq + 1
           /\ \/ /\ SameResourceVersion(l, e)
                 /\ history' = [history EXCEPT ![e.PodIP] =
                                   Append(@, Finished(e, m, l, "duplicate"))]
                 /\ UNCHANGED worker
              \/ /\ ~SameResourceVersion(l, e)
                 /\ ~l.ok
                 /\ worker' = [worker EXCEPT ![i] =
                                  [pc |-> "create", e |-> e, val |-> l.val, ok |-> l.ok,
                                   meta |-> m]]
                 /\ UNCHANGED history
              \/ /\ ~SameResourceVersion(l, e)
                 /\ l.ok
                 /\ worker' = [worker EXCEPT ![i] =
                                  [pc |-> "transition", e |-> e, val |-> l.val,
                                   ok |-> l.ok, meta |-> m]]
                 /\ UNCHANGED history
    /\ lastCall' = {}
    /\ UNCHANGED <<ChannelSize, EipStatusMap, sender, panicked, handled, nEnq>>

\* e.Process returns to worker i with or without an error; the worker logs
\* and continues, or stores the event, and goes back to the receive.
ProcessReturn(i, err) ==
    /\ ~panicked
    /\ worker[i].pc \in {"create", "transition"}
    /\ LET e == worker[i].e
           outcome == IF worker[i].pc = "create"
                      THEN (IF err THEN "createFailed" ELSE "created")
                      ELSE (IF err THEN "transitionFailed" ELSE "transitioned")
       IN  /\ \/ /\ ReachesStore(worker[i].pc, err)
                 /\ EipStatusMap' = [EipStatusMap EXCEPT ![i] = MapStore(@, e)]
              \/ /\ ~ReachesStore(worker[i].pc, err)
                 /\ UNCHANGED EipStatusMap
           /\ history' = [history EXCEPT ![e.PodIP] =
                             Append(@, Finished(e, worker[i].meta, worker[i], outcome))]
    /\ worker' = [worker EXCEPT ![i] = IdleWorker]
    /\ lastCall' = {}
    /\ UNCHANGED <<ChannelSize, ProcessChannel, sender, panicked, chanMeta,
                   handled, nEnq, nDeq>>

\* ------------------------------------------------------------------- spec

Next ==
    \/ /\ handled < MaxEvents
       /\ \E s \in Submitters : \E n \in Notifications : HandleEvent(s, n)
    \/ \E s \in Submitters : SendUnblocked(s)
    \/ \E i \in Lanes : Dequeue(i)
    \/ \E i \in Lanes : \E err \in BOOLEAN : ProcessReturn(i, err)

Spec == Init /\ [][Next]_vars

\* ---------------------------------------------------------- vocabulary

Busy(i) == worker[i].pc \in {"create", "transition"}

CallOutcomes == {"created", "createFailed", "transitioned", "transitionFailed"}
StoredOutcomes == {"created", "transitioned", "transitionFailed"}

\* The positions of a lane channel and of an identity's history.
Slots(i) == 1 .. Len(ProcessChannel[i])
Steps(x) == 1 .. Len(history[x])

\* The number of events buffered in the lane channels 0 .. i together.
RECURSIVE SumBuffered(_)
SumBuffered(i) == IF i < 0 THEN 0 ELSE Len(ProcessChannel[i]) + SumBuffered(i - 1)

\* ------------------------------------------------------------------ C1

\* C1: events of one identity are all on one lane, and the lane worker
\* takes and finishes them in the order of their submission, one at a
\* time: nothing buffered or in a call is older than something the worker
\* has already taken for that identity, and the finished events of an
\* identity are in ticket order.
C1_PerIdentityOrder ==
    /\ \A i \in Lanes : \A k \in Slots(i) :
          LET e == ProcessChannel[i][k]
              t == chanMeta[i][k].seq
          IN  /\ \A j \in Lanes : \A k2 \in Slots(j) :
                    ProcessChannel[j][k2].PodIP = e.PodIP =>
                        /\ j = i
                        /\ (k2 < k => chanMeta[j][k2].seq < t)
              /\ \A j \in Lanes :
                    (Busy(j) /\ worker[j].e.PodIP = e.PodIP) =>
                        (j = i /\ worker[j].meta.seq < t)
              /\ \A r \in Steps(e.PodIP) : history[e.PodIP][r].seq < t
    /\ \A i \in Lanes :
          Busy(i) =>
              /\ \A r \in Steps(worker[i].e.PodIP) :
                    history[worker[i].e.PodIP][r].seq < worker[i].meta.seq
              /\ \A j \in Lanes :
                    (Busy(j) /\ worker[j].e.PodIP = worker[i].e.PodIP) => j = i
    /\ \A x \in Identities : \A r1, r2 \in Steps(x) :
          r1 < r2 => history[x][r1].seq < history[x][r2].seq

\* Two events of one identity with different content have been processed,
\* both through a reconciliation call, while a third was submitted.
C1_Witness ==
    \E x \in Identities :
        /\ Len(history[x]) >= 2
        /\ history[x][1].e # history[x][2].e
        /\ history[x][1].outcome \in CallOutcomes
        /\ history[x][2].outcome \in CallOutcomes

\* ------------------------------------------------------------------ C2

\* The reconciliation calls made so far for identity x and version v:
\* the finished ones and the one in flight.
CallsFor(x, v) ==
    Cardinality({r \in Steps(x) :
                    /\ history[x][r].e.ResourceVersion = v
                    /\ history[x][r].outcome \in CallOutcomes})
    + Cardinality({i \in Lanes :
                    /\ Busy(i)
                    /\ worker[i].e.PodIP = x
                    /\ worker[i].e.ResourceVersion = v})

\* C2 as stated: whatever the outcome of the first call and whatever is
\* processed in between, an (identity, version) pair is reconciled at most
\* once.
C2_ExactlyOneCall ==
    \A x \in Identities : \A v \in Versions : CallsFor(x, v) <= 1

\* C2 as amended: an event whose version equals that of the event
\* processed just before it for the same identity makes no reconciliation
\* call, unless that earlier event ended as a failed create-path call.
C2_DuplicateSuppressed ==
    /\ \A x \in Identities : \A r \in Steps(x) :
          (/\ r > 1
           /\ history[x][r - 1].e.ResourceVersion = history[x][r].e.ResourceVersion
           /\ history[x][r - 1].outcome # "createFailed")
          => history[x][r].outcome = "duplicate"
    /\ \A i \in Lanes :
          LET x == worker[i].e.PodIP
          IN  (/\ Busy(i)
               /\ history[x] # <<>>
               /\ history[x][Len(history[x])].e.ResourceVersion
                      = worker[i].e.ResourceVersion)
              => history[x][Len(history[x])].outcome = "createFailed"

\* An event was reconciled by a call and its redelivery, with other flags,
\* was then skipped.
C2_Witness ==
    \E x \in Identities :
        /\ Len(history[x]) >= 2
        /\ history[x][1].outcome \in StoredOutcomes
        /\ history[x][2].outcome = "duplicate"
        /\ history[x][2].e.ResourceVersion = history[x][1].e.ResourceVersion
        /\ history[x][2].e # history[x][1].e
        /\ CallsFor(x, history[x][1].e.ResourceVersion) = 1

\* ------------------------------------------------------------------ C3

\* C3: after an event of version v1 and then one of another version v2
\* were stored for an identity, a redelivery of the v1 event makes no
\* reconciliation call (and so is never stored again).
C3_NoRegression ==
    \A x \in Identities : \A a, b, c \in Steps(x) :
        (/\ a < b
         /\ b < c
         /\ history[x][a].outcome \in StoredOutcomes
         /\ history[x][b].outcome \in StoredOutcomes
         /\ history[x][b].e.ResourceVersion # history[x][a].e.ResourceVersion
         /\ history[x][c].e = history[x][a].e)
        => history[x][c].outcome \notin CallOutcomes

\* ------------------------------------------------------------------ C4

\* C4: no lane channel holds more than its capacity, every completed send
\* is buffered or was received (received plus buffered equals completed
\* sends), and a caller blocked in the send still holds its event, bound
\* for the lane of its identity.
C4_BackpressureNotLoss ==
    /\ \A i \in Lanes : Len(ProcessChannel[i]) <= QueueCap
    /\ \A i \in Lanes : Len(chanMeta[i]) = Len(ProcessChannel[i])
    /\ nEnq = nDeq + SumBuffered(ChannelSize - 1)
    /\ \A i, j \in Lanes : \A k \in Slots(i) : \A k2 \in Slots(j) :
          (chanMeta[i][k].seq = chanMeta[j][k2].seq) => (i = j /\ k = k2)
    /\ \A i \in Lanes : \A k \in Slots(i) :
          chanMeta[i][k].seq \in (1 .. nEnq)
    /\ \A s \in Submitters :
          sender[s].pc = "send" =>
              /\ sender[s].e \in Events
              /\ sender[s].hash \in Lanes
              /\ sender[s].hash = LaneHash(sender[s].e, ChannelSize)

\* A caller is blocked in the send on a full lane channel.
C4_Witness ==
    \E s \in Submitters :
        /\ sender[s].pc = "send"
        /\ Len(ProcessChannel[sender[s].hash]) = QueueCap

\* ------------------------------------------------ translator vocabulary

\* The identity a notification is about.
IdentityOf(n) == NestedString(n.podIP).val

PassesFilters(n) == ~PhaseRejects(n) /\ ~PodIPRejects(n)

\* The event of notification n with the given flags.
EventOf(n, attach, shield) ==
    [PodIP |-> IdentityOf(n), ResourceVersion |-> n.resourceVersion,
     AttachIP |-> attach, ShiedAdv |-> shield]

\* Call c gave event e, and nothing else, to the channel send of e's lane:
\* the event is the newest of that lane channel, or the lane was full and
\* the caller is blocked holding it, or the lane index is outside the
\* lanes and the send has panicked.
Handed(c, e) ==
    LET hash == LaneHash(e, ChannelSize)
    IN  \/ /\ hash \in Lanes
           /\ sender[c.s].pc = "idle"
           /\ ProcessChannel = [c.chan EXCEPT ![hash] = Append(@, e)]
           /\ nEnq = c.enq + 1
        \/ /\ hash \in Lanes
           /\ sender[c.s].pc = "send"
           /\ sender[c.s].e = e
           /\ sender[c.s].hash = hash
           /\ Len(c.chan[hash]) = QueueCap
           /\ ProcessChannel = c.chan
           /\ nEnq = c.enq
        \/ /\ hash \notin Lanes
           /\ panicked
           /\ ProcessChannel = c.chan
           /\ nEnq = c.enq

\* Call c gave nothing to any channel and returned.
NothingHanded(c) ==
    /\ ProcessChannel = c.chan
    /\ nEnq = c.enq
    /\ sender[c.s].pc = "idle"
    /\ ~panicked

\* The lane state holds an event with AttachIP set for identity x.
Attached(x) ==
    \E i \in Lanes : x \in DOMAIN EipStatusMap[i] /\ EipStatusMap[i][x].AttachIP

\* ------------------------------------------------------------------ C5

\* C5 as stated: every delete notification for an identity whose lane
\* state holds an attached event makes HandleEvent enqueue an event with
\* both flags false, and every event of a delete notification that the
\* worker finds an attached entry for goes through the transition path.
C5_DeleteForcesDetach ==
    /\ \A c \in lastCall :
          (c.n.action = "delete" /\ Attached(IdentityOf(c.n)))
          => Handed(c, EventOf(c.n, FALSE, FALSE))
    /\ \A x \in Identities : \A r \in Steps(x) :
          (/\ history[x][r].action = "delete"
           /\ history[x][r].ok
           /\ history[x][r].val.AttachIP)
          => history[x][r].outcome \in {"transitioned", "transitionFailed"}

\* C5 as amended: every delete notification that passes the phase and
\* address filters makes HandleEvent give an event with both flags false
\* to the channel send; when the worker takes such an event and the
\* identity has a lane-state entry, it never takes the create path: it
\* calls the transition path with the stored event when the stored version
\* differs, and skips the event as a duplicate when the versions are equal.
C5_DeleteDetachesWhenPassed ==
    /\ \A c \in lastCall :
          (c.n.action = "delete" /\ PassesFilters(c.n))
          => Handed(c, EventOf(c.n, FALSE, FALSE))
    /\ \A c \in lastCall :
          (c.n.action = "delete" /\ ~PassesFilters(c.n)) => NothingHanded(c)
    /\ \A i \in Lanes :
          (Busy(i) /\ worker[i].meta.action = "delete") =>
              /\ ~worker[i].e.AttachIP /\ ~worker[i].e.ShiedAdv
              /\ worker[i].ok = (worker[i].e.PodIP \in DOMAIN EipStatusMap[i])
              /\ worker[i].ok =>
                    /\ worker[i].pc = "transition"
                    /\ worker[i].val = EipStatusMap[i][worker[i].e.PodIP]
                    /\ worker[i].val.ResourceVersion # worker[i].e.ResourceVersion
    /\ \A x \in Identities : \A r \in Steps(x) :
          LET h == history[x][r]
          IN  (h.action = "delete") =>
                  /\ ~h.e.AttachIP /\ ~h.e.ShiedAdv
                  /\ h.ok => h.outcome \in {"transitioned", "transitionFailed", "duplicate"}
                  /\ h.ok => ((h.outcome = "duplicate")
                                  = (h.val.ResourceVersion = h.e.ResourceVersion))

\* The event of a delete notification went through the transition path
\* with an attached previous event.
C5_Witness ==
    \E x \in Identities : \E r \in Steps(x) :
        /\ history[x][r].action = "delete"
        /\ history[x][r].ok
        /\ history[x][r].val.AttachIP
        /\ history[x][r].outcome = "transitioned"

\* ------------------------------------------------------------------ C6

\* C6: every create or update notification that passes the filters and
\* carries the auto-attach annotation makes HandleEvent hand over an event
\* with AttachIP true, and with ShiedAdv true exactly when the shield
\* annotation is "advanced".
C6_CreateOrUpdateIntent ==
    \A c \in lastCall :
        (/\ c.n.action \in {"create", "update"}
         /\ PassesFilters(c.n)
         /\ c.n.annType = "auto")
        => Handed(c, EventOf(c.n, TRUE, c.n.annShield = "advanced"))

\* ------------------------------------------------------------------ C7

\* C7 as stated, for snapshots whose phase and podIP fields are strings
\* when present: an update whose current annotations do not enable
\* auto-attach and whose previous annotations did hands over exactly one
\* event with both flags false; when neither enables it, nothing is
\* handed over and every lane channel is unchanged.
C7_OptOut ==
    \A c \in lastCall :
        (/\ c.n.action = "update"
         /\ c.n.annType # "auto"
         /\ ~NestedString(c.n.phase).err
         /\ ~NestedString(c.n.podIP).err) =>
            IF c.n.oldAnnType = "auto"
            THEN Handed(c, EventOf(c.n, FALSE, FALSE))
            ELSE NothingHanded(c)

\* C7 as amended: the same for update notifications that pass the phase
\* and address filters; one that does not pass hands over nothing.
C7_OptOutWhenPassed ==
    \A c \in lastCall :
        (c.n.action = "update" /\ c.n.annType # "auto") =>
            IF PassesFilters(c.n) /\ c.n.oldAnnType = "auto"
            THEN Handed(c, EventOf(c.n, FALSE, FALSE))
            ELSE NothingHanded(c)

\* An opt-out update for an identity whose lane state holds an attached
\* event has just put its event on a lane channel.
C7_Witness ==
    \E c \in lastCall :
        /\ c.n.action = "update"
        /\ c.n.annType # "auto"
        /\ c.n.oldAnnType = "auto"
        /\ Attached(IdentityOf(c.n))
        /\ nEnq = c.enq + 1
        /\ \E i \in Lanes :
              /\ ProcessChannel[i] # <<>>
              /\ ProcessChannel[i][Len(ProcessChannel[i])] = EventOf(c.n, FALSE, FALSE)

\* ------------------------------------------------------------------ C8

\* C8: for every event HandleEvent submits, the lane index insert2Queue
\* computes is one of 0 .. ChannelSize - 1 and the send does not panic.
C8_LaneInRange ==
    \A c \in lastCall :
        Translate(c.n).emit =>
            /\ LaneHash(Translate(c.n).e, ChannelSize) \in 0 .. (ChannelSize - 1)
            /\ ~panicked

\* ------------------------------------------------------------------ C9

\* C9: after a failed create-path call the identity still has no
\* lane-state entry, and the next event processed for it (a redelivery of
\* the same version in particular) takes the create path again, with nil
\* as the previous state, and is not skipped as a duplicate.
C9_FailedCreateNotCommitted ==
    /\ \A x \in Identities :
          (history[x] # <<>> /\ history[x][Len(history[x])].outcome = "createFailed")
          => \A i \in Lanes : x \notin DOMAIN EipStatusMap[i]
    /\ \A x \in Identities : \A r \in Steps(x) :
          (r > 1 /\ history[x][r - 1].outcome = "createFailed") =>
              /\ history[x][r].outcome \in {"created", "createFailed"}
              /\ ~history[x][r].ok
              /\ history[x][r].val = NoEvent
    /\ \A i \in Lanes :
          LET x == worker[i].e.PodIP
          IN  (/\ Busy(i)
               /\ history[x] # <<>>
               /\ history[x][Len(history[x])].outcome = "createFailed")
              => (worker[i].pc = "create" /\ ~worker[i].ok /\ worker[i].val = NoEvent)

\* A create-path call failed and the redelivery of the same event went
\* through the create path again.
C9_Witness ==
    \E x \in Identities :
        /\ Len(history[x]) >= 2
        /\ history[x][1].outcome = "createFailed"
        /\ history[x][2].e = history[x][1].e
        /\ history[x][2].outcome = "created"
        /\ \E i \in Lanes :
              x \in DOMAIN EipStatusMap[i] /\ EipStatusMap[i][x] = history[x][2].e

\* ------------------------------------------------------------------ C10

\* C10: after a transition-path call, failed or not, the lane state of
\* the identity is the event of that call, and the next event processed
\* for the identity, if it has the same version, is skipped as a duplicate:
\* the failed transition is not retried.
C10_TransitionAlwaysCommits ==
    /\ \A x \in Identities :
          LET n == Len(history[x])
          IN  (n > 0 /\ history[x][n].outcome \in {"transitioned", "transitionFailed"})
              => \E i \in Lanes :
                    /\ x \in DOMAIN EipStatusMap[i]
                    /\ EipStatusMap[i][x] = history[x][n].e
    /\ \A x \in Identities : \A r \in Steps(x) :
          (/\ r > 1
           /\ history[x][r - 1].outcome \in {"transitioned", "transitionFailed"}
           /\ history[x][r].e.ResourceVersion = history[x][r - 1].e.ResourceVersion)
          => (history[x][r].outcome = "duplicate" /\ history[x][r].val = history[x][r - 1].e)
    /\ \A i \in Lanes :
          LET x == worker[i].e.PodIP
              n == Len(history[x])
          IN  (/\ Busy(i)
               /\ n > 0
               /\ history[x][n].outcome \in {"transitioned", "transitionFailed"})
              => /\ worker[i].pc = "transition"
                 /\ worker[i].val = history[x][n].e
                 /\ worker[i].e.ResourceVersion # history[x][n].e.ResourceVersion

\* A transition-path call failed and the redelivery of its event was
\* skipped as a duplicate.
C10_Witness ==
    \E x \in Identities : \E r \in Steps(x) :
        /\ r > 1
        /\ history[x][r - 1].outcome = "transitionFailed"
        /\ history[x][r].outcome = "duplicate"
        /\ history[x][r].e.ResourceVersion = history[x][r - 1].e.ResourceVersion

\* ------------------------------------------------------------------ C11

FlagsConsistent(e) == ~e.AttachIP => ~e.ShiedAdv

\* C11: every event HandleEvent has submitted, wherever it is now (held by
\* a blocked caller, buffered in a lane channel, held by a worker, stored
\* in a lane state or finished), has ShiedAdv false when AttachIP is false.
C11_FlagInvariant ==
    /\ \A c \in lastCall :
          Translate(c.n).emit => FlagsConsistent(Translate(c.n).e)
    /\ \A s \in Submitters : sender[s].pc = "send" => FlagsConsistent(sender[s].e)
    /\ \A i \in Lanes :
          /\ \A k \in Slots(i) : FlagsConsistent(ProcessChannel[i][k])
          /\ Busy(i) => FlagsConsistent(worker[i].e)
          /\ \A x \in DOMAIN EipStatusMap[i] : FlagsConsistent(EipStatusMap[i][x])
    /\ \A x \in Identities : \A r \in Steps(x) : FlagsConsistent(history[x][r].e)

\* An update with the shield annotation but without auto-attach, after an
\* enabling snapshot, has put its event, both flags false, at the back
\* of a lane channel, while the lane state holds an event with both flags
\* set for the identity.
C11_Witness ==
    \E c \in lastCall :
        /\ c.n.action = "update"
        /\ c.n.annType # "auto"
        /\ c.n.annShield = "advanced"
        /\ c.n.oldAnnType = "auto"
        /\ \E i \in Lanes :
              /\ IdentityOf(c.n) \in DOMAIN EipStatusMap[i]
              /\ EipStatusMap[i][IdentityOf(c.n)].ShiedAdv
        /\ nEnq = c.enq + 1
        /\ \E i \in Lanes :
              /\ ProcessChannel[i] # <<>>
              /\ ProcessChannel[i][Len(ProcessChannel[i])] = EventOf(c.n, FALSE, FALSE)

\* ------------------------------------------------------------------ C12

\* C12: a worker inside the create-path call holds an event whose identity
\* has no entry in its lane state, and was given nil; a worker inside the
\* transition-path call holds an event whose identity has an entry of
\* another version, and was given exactly that entry; a finished event
\* made no call exactly when the entry it found had its version, a
\* create-path call exactly when it found no entry, and a transition-path
\* call otherwise.
C12_DispatchDecision ==
    /\ \A i \in Lanes :
          LET x == worker[i].e.PodIP
          IN  /\ worker[i].pc = "create" =>
                    /\ x \notin DOMAIN EipStatusMap[i]
                    /\ ~worker[i].ok
                    /\ worker[i].val = NoEvent
              /\ worker[i].pc = "transition" =>
                    /\ x \in DOMAIN EipStatusMap[i]
                    /\ worker[i].ok
                    /\ worker[i].val = EipStatusMap[i][x]
                    /\ worker[i].val.ResourceVersion # worker[i].e.ResourceVersion
    /\ \A x \in Identities : \A r \in Steps(x) :
          LET h == history[x][r]
              stored == {q \in 1 .. (r - 1) : history[x][q].outcome \in StoredOutcomes}
          IN  /\ h.ok = (stored # {})
              /\ h.ok => \E q \in stored :
                            /\ \A q2 \in stored : q2 <= q
                            /\ h.val = history[x][q].e
              /\ (h.outcome \in {"created", "createFailed"}) = ~h.ok
              /\ (h.outcome = "duplicate")
                    = (h.ok /\ h.val.ResourceVersion = h.e.ResourceVersion)
              /\ (h.outcome \in {"transitioned", "transitionFailed"})
                    = (h.ok /\ h.val.ResourceVersion # h.e.ResourceVersion)

\* One identity went through all three: create path, transition path with
\* the stored event, and a skipped duplicate.
C12_Witness ==
    \E x \in Identities :
        /\ Len(history[x]) = 3
        /\ history[x][1].outcome = "created"
        /\ history[x][2].outcome \in {"transitioned", "transitionFailed"}
        /\ history[x][2].val = history[x][1].e
        /\ history[x][3].outcome = "duplicate"

\* ------------------------------------------------------------------ C13

\* Worker i takes the head of its channel and the entry stored for that
\* identity has the head's version.
DuplicateStep(i) ==
    /\ ProcessChannel[i] # <<>>
    /\ ProcessChannel'[i] = Tail(ProcessChannel[i])
    /\ nDeq' = nDeq + 1
    /\ LET e == Head(ProcessChannel[i])
       IN  /\ e.PodIP \in DOMAIN EipStatusMap[i]
           /\ EipStatusMap[i][e.PodIP].ResourceVersion = e.ResourceVersion

\* C13: the step that takes an event whose version equals the stored
\* version starts no call (the worker is back at the receive) and leaves
\* the lane state of every identity in every lane as it was, whatever the
\* flags of the event.
C13_DuplicateIsNoOp ==
    [][\A i \in Lanes :
          DuplicateStep(i) =>
              /\ EipStatusMap' = EipStatusMap
              /\ worker' = worker
              /\ LET x == Head(ProcessChannel[i]).PodIP
                 IN  /\ Len(history'[x]) = Len(history[x]) + 1
                     /\ history'[x][Len(history'[x])].outcome = "duplicate"]_vars

\* A skipped event whose flags differ from the stored event's, with the
\* stored event still in place.
C13_Witness ==
    \E x \in Identities : \E i \in Lanes :
        /\ history[x] # <<>>
        /\ LET h == history[x][Len(history[x])]
           IN  /\ h.outcome = "duplicate"
               /\ h.e.AttachIP # h.val.AttachIP
               /\ x \in DOMAIN EipStatusMap[i]
               /\ EipStatusMap[i][x] = h.val

\* ------------------------------------------------------------------ C14

\* Every entry, buffered event and event inside a call of lane i belongs
\* to lane i, and an entry is keyed by the identity of the stored event.
LaneConfined ==
    \A i \in Lanes :
        /\ \A x \in DOMAIN EipStatusMap[i] :
              /\ EipStatusMap[i][x].PodIP = x
              /\ LaneHash(EipStatusMap[i][x], ChannelSize) = i
        /\ \A k \in Slots(i) : LaneHash(ProcessChannel[i][k], ChannelSize) = i
        /\ Busy(i) => LaneHash(worker[i].e, ChannelSize) = i

\* A step that changes lane i's state is the return of worker i's call and
\* changes no other lane's state; a step that shortens lane i's channel
\* changes worker i or its history only, and no other lane's channel.
WorkerOwnsLane ==
    \A i \in Lanes :
        /\ EipStatusMap'[i] # EipStatusMap[i] =>
              /\ Busy(i)
              /\ worker'[i] = IdleWorker
              /\ EipStatusMap'[i] = MapStore(EipStatusMap[i], worker[i].e)
              /\ \A j \in Lanes \ {i} :
                    EipStatusMap'[j] = EipStatusMap[j] /\ worker'[j] = worker[j]
        /\ Len(ProcessChannel'[i]) < Len(ProcessChannel[i]) =>
              /\ ~Busy(i)
              /\ ProcessChannel'[i] = Tail(ProcessChannel[i])
              /\ \A j \in Lanes \ {i} :
                    ProcessChannel'[j] = ProcessChannel[j] /\ worker'[j] = worker[j]

\* C14: lane isolation. Entries, buffered events and events in a call
\* stay on the lane their identity hashes to, entries are keyed by their
\* own identity, and only worker i changes lane i's state and takes from
\* lane i's channel.
C14_LaneIsolation == []LaneConfined /\ [][WorkerOwnsLane]_vars

\* Both lanes hold an entry, each for an identity of its own.
C14_Witness ==
    /\ ChannelSize = 2
    /\ \A i \in Lanes : DOMAIN EipStatusMap[i] # {}

\* ------------------------------------------------------------------ C15

\* C15: an identity has an entry (on its lane only) exactly when one of
\* its finished events was stored, and the entry is the last such event,
\* also when that event came from a delete; once the create path has
\* succeeded for an identity it is not entered for it again.
C15_EntriesPersist ==
    \A x \in Identities :
        LET stored == {r \in Steps(x) : history[x][r].outcome \in StoredOutcomes}
            created == {r \in Steps(x) : history[x][r].outcome = "created"}
        IN  /\ \A i \in Lanes :
                  x \in DOMAIN EipStatusMap[i] =>
                      /\ stored # {}
                      /\ \E r \in stored :
                            /\ \A q \in stored : q <= r
                            /\ EipStatusMap[i][x] = history[x][r].e
            /\ stored # {} => \E i \in Lanes : x \in DOMAIN EipStatusMap[i]
            /\ \A r \in created :
                  /\ \A q \in Steps(x) :
                        q > r => history[x][q].outcome \notin {"created", "createFailed"}
                  /\ \A i \in Lanes :
                        ~(worker[i].pc = "create" /\ worker[i].e.PodIP = x)

\* After a successful create a delete event of the identity was processed
\* and stored, and a further event was taken for it.
C15_Witness ==
    \E x \in Identities : \E i \in Lanes :
        /\ Len(history[x]) >= 2
        /\ history[x][1].outcome = "created"
        /\ history[x][2].action = "delete"
        /\ history[x][2].outcome \in {"transitioned", "transitionFailed"}
        /\ x \in DOMAIN EipStatusMap[i]
        /\ ~EipStatusMap[i][x].AttachIP
        /\ \/ Len(history[x]) = 3
           \/ worker[i].pc = "transition" /\ worker[i].e.PodIP = x

\* ------------------------------------------------------------------ C18

\* The phase field is present and not "Running", or the podIP field is
\* present and empty.
Filtered(n) ==
    \/ NestedString(n.phase).exist /\ NestedString(n.phase).val # "Running"
    \/ NestedString(n.podIP).exist /\ NestedString(n.podIP).val = ""

\* C18: a HandleEvent call with a filtered notification, whatever its
\* action, submits nothing: every lane channel, every lane state, every
\* worker and the caller are as before the call.
C18_FilteredIsNoOp ==
    [][\A c \in lastCall' :
          Filtered(c.n) =>
              /\ handled' = handled + 1
              /\ UNCHANGED <<ProcessChannel, chanMeta, EipStatusMap, worker,
                             sender, nEnq, nDeq, history, panicked>>]_vars

\* A delete seen in phase Pending returned while a lane held a buffered
\* event and an entry; nothing was submitted.
C18_Witness ==
    \E c \in lastCall :
        /\ c.n.action = "delete"
        /\ c.n.phase = "Pending"
        /\ NothingHanded(c)
        /\ \E i \in Lanes : ProcessChannel[i] # <<>> /\ DOMAIN EipStatusMap[i] # {}

\* ------------------------------------------------------------------ C19

\* C19: every event HandleEvent passes to insert2Queue, every event on a
\* lane channel or held by a blocked caller or a worker, and every key of
\* every lane state has a non-empty identity.
C19_NonEmptyIdentity ==
    /\ \A c \in lastCall : Translate(c.n).emit => Translate(c.n).e.PodIP # ""
    /\ \A s \in Submitters : sender[s].pc = "send" => sender[s].e.PodIP # ""
    /\ \A i \in Lanes :
          /\ \A k \in Slots(i) : ProcessChannel[i][k].PodIP # ""
          /\ Busy(i) => worker[i].e.PodIP # ""
          /\ "" \notin DOMAIN EipStatusMap[i]

\* ------------------------------------------------------------------ C16

\* Worker i has an event to take, or is inside a call that can return.
WorkerPending(i) == Busy(i) \/ (worker[i].pc = "recv" /\ ProcessChannel[i] # <<>>)

\* The next step of worker i can be taken.
WorkerCanStep(i) ==
    IF Busy(i)
    THEN ENABLED (\E err \in BOOLEAN : ProcessReturn(i, err))
    ELSE ENABLED Dequeue(i)

\* C16: progress. A worker with a buffered event or inside a call can
\* always take its next step, also after a call that ended with an error,
\* and a caller blocked in the send can complete it as soon as the lane
\* channel has room; with fair scheduling every submitted event is then
\* taken and processed and every blocked insert2Queue returns.
C16_Progress ==
    /\ \A i \in Lanes : WorkerPending(i) => WorkerCanStep(i)
    /\ \A s \in Submitters :
          (sender[s].pc = "send" /\ HasRoom(sender[s].hash))
          => ENABLED SendUnblocked(s)

\* ------------------------------------------------------------------ C17

\* C17: while worker L is inside a call it takes nothing from lane L's
\* channel and a caller blocked on the full channel of lane L stays
\* blocked, while the worker of every other lane can still take its next
\* step on the events in its channel.
C17_StallConfined ==
    \A L \in Lanes :
        Busy(L) =>
            /\ ~ENABLED Dequeue(L)
            /\ \A s \in Submitters :
                  (sender[s].pc = "send" /\ sender[s].hash = L /\ ~HasRoom(L))
                  => ~ENABLED SendUnblocked(s)
            /\ \A j \in Lanes \ {L} : WorkerPending(j) => WorkerCanStep(j)

====
